---- MODULE Spec2Model ----
(***************************************************************************)
(* data_downloader.py: get_info and its helpers, as a state machine of     *)
(* concurrently running fetches that share one asyncio.BoundedSemaphore.   *)
(* Strings are sequences of one-character strings, so that find, split,    *)
(* slicing and "in" are computed as Python computes them.                  *)
(***************************************************************************)
EXTENDS FiniteSets, Integers, Sequences, TLC

\* ------------------------------------------------------------------ bounds
NumFetch == 2      \* get_info calls started on the same semaphore
NumPermits == 2    \* largest value the semaphore is created with
MaxChunks == 1     \* chunks a response body delivers at most
MaxPieces == 5     \* pieces a link or header given to a helper is made of at most

Fetches == 1..NumFetch

\* ----------------------------------------------------------------- strings
\* Python's None, told apart from every string of characters
None == <<"None">>

S_image == <<"i","m","a","g","e">>
S_audio == <<"a","u","d","i","o">>
S_text_html == <<"t","e","x","t","/","h","t","m","l">>
S_vk_doc == <<"v","k",".","c","o","m","/","d","o","c">>
S_charset == <<"c","h","a","r","s","e","t","=">>
S_semicolon == <<";">>
S_slash == <<"/">>
S_dot == <<".">>
S_extra == <<"?","e","x","t","r","a">>
S_error == <<"e","r","r","o","r">>
S_not_parse == <<"n","o","t","_","p","a","r","s","e">>

\* str.find(sub): index (from 0) of the first occurrence, -1 when absent
Find(s, sub) ==
    LET hits == {i \in 0..(Len(s) - Len(sub)) : SubSeq(s, i + 1, i + Len(sub)) = sub}
    IN IF hits = {} THEN -1 ELSE CHOOSE i \in hits : \A j \in hits : i <= j

\* sub in s
Contains(s, sub) == Find(s, sub) # -1

\* s[k:]
SliceFrom(s, k) == SubSeq(s, k + 1, Len(s))

\* s[:k]
SliceTo(s, k) == SubSeq(s, 1, k)

\* str.split(sep)
RECURSIVE Split(_, _)
Split(s, sep) ==
    LET i == Find(s, sep)
    IN IF i = -1 THEN <<s>>
       ELSE <<SliceTo(s, i)>> \o Split(SliceFrom(s, i + Len(sep)), sep)

\* os.path.join(a, b)
join(a, b) ==
    IF Len(b) > 0 /\ b[1] = "/" THEN b
    ELSE IF a = <<>> \/ a[Len(a)] = "/" THEN a \o b
    ELSE a \o S_slash \o b

\* ------------------------------------------------------- get_response_info
ValueError == [raised |-> "ValueError"]
KeyError == [raised |-> "KeyError"]

Raised(v) == "raised" \in DOMAIN v

\* a name no value is bound to yet
Unset == [unset |-> TRUE]

\* the type portion taken apart without the check for exactly one "/"
get_response_info_lenient(content_type) ==
    LET find_res == Find(content_type, S_semicolon)
        full_type_info == IF find_res # -1 THEN SliceTo(content_type, find_res)
                          ELSE content_type
        parts == Split(full_type_info, S_slash)
    IN [data_type |-> parts[1],
        extension |-> parts[Len(parts)],
        full_type_info |-> full_type_info]

\* the encoding taken from the start of "charset=" instead of from its end
get_response_info_charset_start(content_type) ==
    LET find_charset == Find(content_type, S_charset)
        encoding == SliceFrom(content_type, find_charset)
        find_res == Find(content_type, S_semicolon)
        full_type_info == IF find_res # -1 THEN SliceTo(content_type, find_res)
                          ELSE content_type
        parts == Split(full_type_info, S_slash)
        types == [data_type |-> parts[1],
                  extension |-> parts[2],
                  full_type_info |-> full_type_info]
    IN IF Len(parts) # 2 THEN ValueError
       ELSE IF find_charset # -1 THEN [encoding |-> encoding] @@ types
       ELSE types

\* the first two parts taken, whatever follows them
get_response_info_first_two(content_type) ==
    LET find_charset == Find(content_type, S_charset)
        encoding == SliceFrom(content_type, find_charset + Len(S_charset))
        find_res == Find(content_type, S_semicolon)
        full_type_info == IF find_res # -1 THEN SliceTo(content_type, find_res)
                          ELSE content_type
        parts == Split(full_type_info, S_slash)
        types == [data_type |-> parts[1],
                  extension |-> parts[2],
                  full_type_info |-> full_type_info]
    IN IF Len(parts) < 2 THEN ValueError
       ELSE IF find_charset # -1 THEN [encoding |-> encoding] @@ types
       ELSE types

get_response_info(content_type) ==
    LET find_charset == Find(content_type, S_charset)
        encoding == SliceFrom(content_type, find_charset + Len(S_charset))
        find_res == Find(content_type, S_semicolon)
        full_type_info == IF find_res # -1 THEN SliceTo(content_type, find_res)
                          ELSE content_type
        parts == Split(full_type_info, S_slash)
        types == [data_type |-> parts[1],
                  extension |-> parts[2],
                  full_type_info |-> full_type_info]
    IN IF Len(parts) # 2 THEN ValueError
       ELSE IF find_charset # -1 THEN [encoding |-> encoding] @@ types
       ELSE types

\* ---------------------------------------------------- get_file_name_by_link
get_file_name_by_link(link) ==
    IF link = None THEN None
    ELSE LET segs == Split(link, S_slash)
         IN Split(segs[Len(segs)], S_extra)[1]

\* ------------------------------------------------------------------ inputs
U_viewer == <<"v","k",".","c","o","m","/","d","o","c","1">>
U_plain == <<"c","d","n","/","a",".","j","p","g">>
U_redirect == <<"c","d","n","/","r">>
L_doc == <<"c","d","n","/","d","o","c","1","2","3">>
\* a link whose path ends in "/"
L_dir == <<"c","d","n","/">>

H_jpeg == <<"i","m","a","g","e","/","j","p","e","g">>
H_html == <<"t","e","x","t","/","h","t","m","l",";"," ","c","h","a","r","s","e","t","=","u","t","f","-","8">>
H_mpeg == <<"a","u","d","i","o","/","m","p","e","g">>
H_pdf == <<"a","p","p","l","i","c","a","t","i","o","n","/","p","d","f">>
H_html_image == <<"t","e","x","t","/","h","t","m","l",";","i","m","a","g","e">>

Urls == {U_viewer, U_plain}
FileNames == {<<"a">>}
save_path == <<"d">>
\* content-type headers a server answers with; S_image is a header without "/"
Headers == {H_jpeg, H_mpeg, H_html, H_pdf, H_html_image, S_image}

\* what BeautifulSoup finds in a viewer page: the <title> (absent, plain or
\* carrying the error marker) and the src of the first <img> and <iframe>
\* (Absent: no such element; None: the element has no src attribute)
Absent == <<"Absent">>
T_ok == "ok"
T_error == "error"
T_none == "none"
P_img == [title |-> T_ok, img |-> L_doc, iframe |-> Absent]
P_empty == [title |-> T_ok, img |-> Absent, iframe |-> Absent]
Pages == {P_img, P_empty,
          [title |-> T_ok, img |-> Absent, iframe |-> L_doc],
          [title |-> T_ok, img |-> None, iframe |-> L_doc],
          [title |-> T_ok, img |-> L_dir, iframe |-> L_doc],
          [title |-> T_error, img |-> L_doc, iframe |-> Absent],
          [title |-> T_none, img |-> L_doc, iframe |-> Absent]}

\* the answers the servers give when all calls run concurrently
Servers == [statuses |-> {200, 404},
            primary |-> {H_jpeg, H_html},
            redirects |-> {},
            viewer |-> {H_html},
            pages |-> {P_img, P_empty},
            second |-> {H_jpeg},
            second_statuses |-> {200}]

\* the answers the servers give to a call that runs alone
AllServers == [statuses |-> {200, 404},
               primary |-> Headers \cup {None},
               redirects |-> {U_redirect},
               viewer |-> {H_html, H_pdf, None},
               pages |-> Pages,
               second |-> Headers \cup {None},
               second_statuses |-> {200, 404}]

\* ------------------------------------------------------------------- state
VARIABLES
    bound,      \* value the BoundedSemaphore was created with
    sema,       \* value of the BoundedSemaphore
    pc,         \* where each get_info call is suspended
    url,        \* argument url of each call
    file_name,  \* argument file_name of each call
    holder,     \* calls inside "async with sema"
    session,    \* calls whose ClientSession is open
    local,      \* local variables of each call
    dirs,       \* folders tools.create_folder has made
    files,      \* content of every file on disk, a sequence of chunks
    handle,     \* path each call has open for writing, or None
    opened,     \* how many times each call opened a file for writing
    outcome,    \* value or exception leaving the "async with" blocks
    result,     \* value get_info returned
    log,        \* entries the logger received from each call, by level
    call        \* a helper function called on its own: argument and return

vars == <<bound, sema, pc, url, file_name, holder, session, local, dirs, files,
          handle, opened, outcome, result, log, call>>

NoResponse == [status |-> 0, content_type |-> None, url |-> None, open |-> FALSE]

NoLog == [error |-> 0, debug |-> 0]

NoCall == [fn |-> "none", arg |-> None, returned |-> FALSE, ret |-> Unset]

NoLocals == [response |-> NoResponse,
             viewer |-> NoResponse, soup |-> Unset, find_res |-> None,
             response_info |-> Unset, download_path |-> None, name |-> None,
             n_chunks |-> 0]

Init ==
    /\ bound \in 1..NumPermits
    /\ sema = bound
    /\ pc = [f \in Fetches |-> "start"]
    /\ url \in [Fetches -> Urls]
    /\ file_name \in [Fetches -> FileNames]
    /\ holder = {}
    /\ session = {}
    /\ local = [f \in Fetches |-> NoLocals]
    /\ dirs = {}
    /\ files = <<>>
    /\ handle = [f \in Fetches |-> None]
    /\ opened = [f \in Fetches |-> 0]
    /\ outcome = [f \in Fetches |-> Unset]
    /\ result = [f \in Fetches |-> Unset]
    /\ log = [f \in Fetches |-> NoLog]
    /\ call = NoCall

\* the session is opened without waiting for a permit
Acquire_unguarded(f) ==
    /\ pc[f] = "start"
    /\ sema' = sema - 1
    /\ holder' = holder \cup {f}
    /\ session' = session \cup {f}
    /\ pc' = [pc EXCEPT ![f] = "primary"]
    /\ UNCHANGED <<log, call, bound, url, file_name, local, dirs, files, handle, opened, outcome, result>>

\* async with sema, aiohttp.ClientSession(...) as session: session.get(url)
Acquire(f) ==
    /\ pc[f] = "start"
    /\ sema > 0
    /\ sema' = sema - 1
    /\ holder' = holder \cup {f}
    /\ session' = session \cup {f}
    /\ pc' = [pc EXCEPT ![f] = "primary"]
    /\ UNCHANGED <<log, call, bound, url, file_name, local, dirs, files, handle, opened, outcome, result>>

\* ------------------------------------------------------------ find_link_by_url
\* the loop run over 'iframe', 'img'
ScanPage_iframe_first(page) ==
    IF page.iframe # Absent THEN page.iframe
    ELSE IF page.img # Absent THEN page.img
    ELSE Absent

\* the loop over 'img', 'iframe': the src of the first element found; Absent
\* when the page has neither
ScanPage(page) ==
    IF page.img # Absent THEN page.img
    ELSE IF page.iframe # Absent THEN page.iframe
    ELSE Absent

\* redirect_url = str(response.url); returned when it differs from url
RedirectResult(requested, final_url) ==
    IF final_url # requested THEN final_url ELSE None

\* ------------------------------------------------------------------ get_info
AssertionError == [raised |-> "AssertionError"]
AttributeError == [raised |-> "AttributeError"]
ClientError == [raised |-> "ClientError"]
InvalidURL == [raised |-> "InvalidURL"]

\* a response block that does not release its response on the way out
Closed_left_open(r) == r

\* the response as its "async with" block leaves it
Closed(r) == [r EXCEPT !.open = FALSE]

\* the viewer test made before the image/audio test
Classify_viewer_first(content_type, u) ==
    IF Contains(content_type, S_text_html) /\ Contains(u, S_vk_doc) THEN "resolve"
    ELSE IF Contains(content_type, S_image) \/ Contains(content_type, S_audio) THEN "direct"
    ELSE "unhandled"

\* the branch get_info takes on a 200 response
Classify(content_type, u) ==
    IF Contains(content_type, S_image) \/ Contains(content_type, S_audio) THEN "direct"
    ELSE IF Contains(content_type, S_text_html) /\ Contains(u, S_vk_doc) THEN "resolve"
    ELSE "unhandled"

\* an exception of one call takes the other running calls down with it
Throw_abort_all(f, exc, loc) ==
    /\ outcome' = [g \in Fetches |-> IF g = f \/ pc[g] \notin {"start", "unwind", "done"}
                                     THEN exc ELSE outcome[g]]
    /\ local' = [local EXCEPT ![f] = [NoLocals EXCEPT !.response = Closed(loc.response),
                                                      !.viewer = Closed(loc.viewer),
                                                      !.soup = loc.soup]]
    /\ handle' = [g \in Fetches |-> IF g = f \/ pc[g] \notin {"start", "unwind", "done"}
                                    THEN None ELSE handle[g]]
    /\ pc' = [g \in Fetches |-> IF g = f \/ pc[g] \notin {"start", "unwind", "done"}
                                THEN "unwind" ELSE pc[g]]
    /\ UNCHANGED <<log, call, bound, sema, url, file_name, holder, session, dirs, files, opened, result>>

\* an exception leaves the "async with" blocks of call f: its file handle and
\* its responses are closed on the way out
Throw(f, exc, loc) ==
    /\ outcome' = [outcome EXCEPT ![f] = exc]
    /\ local' = [local EXCEPT ![f] = [NoLocals EXCEPT !.response = Closed(loc.response),
                                                      !.viewer = Closed(loc.viewer),
                                                      !.soup = loc.soup]]
    /\ handle' = [handle EXCEPT ![f] = None]
    /\ pc' = [pc EXCEPT ![f] = "unwind"]
    /\ UNCHANGED <<log, call, bound, sema, url, file_name, holder, session, dirs, files, opened, result>>

\* a return statement of call f
Return(f, value, loc) ==
    /\ outcome' = [outcome EXCEPT ![f] = value]
    /\ local' = [local EXCEPT ![f] = [NoLocals EXCEPT !.response = Closed(loc.response)]]
    /\ handle' = [handle EXCEPT ![f] = None]
    /\ pc' = [pc EXCEPT ![f] = "unwind"]
    /\ UNCHANGED <<log, call, bound, sema, url, file_name, holder, session, dirs, files, opened, result>>

\* the folder is made before the content type is classified
Unhandled_mkdir(f, loc) ==
    /\ outcome' = [outcome EXCEPT ![f] = [url |-> loc.response.url, file_info |-> S_not_parse]]
    /\ local' = [local EXCEPT ![f] = [NoLocals EXCEPT !.response = Closed(loc.response)]]
    /\ dirs' = dirs \cup {join(save_path, SliceTo(loc.response.content_type,
                                 IF Find(loc.response.content_type, S_semicolon) # -1
                                 THEN Find(loc.response.content_type, S_semicolon)
                                 ELSE Len(loc.response.content_type)))}
    /\ pc' = [pc EXCEPT ![f] = "unwind"]
    /\ UNCHANGED <<log, call, bound, sema, url, file_name, holder, session, files, handle, opened, result>>

\* return {'url': response.url, 'file_info': 'not_parse'}
Unhandled(f, loc) ==
    Return(f, [url |-> loc.response.url, file_info |-> S_not_parse], loc)

\* the permit is given back once the headers are in, before the body is read
StartDownload_release(f, loc, info, name) ==
    LET download_path == join(save_path, info.full_type_info)
    IN /\ dirs' = dirs \cup {download_path}
       /\ local' = [local EXCEPT ![f] = [loc EXCEPT !.response_info = info,
                                                    !.download_path = download_path,
                                                    !.name = name]]
       /\ pc' = [pc EXCEPT ![f] = "open_file"]
       /\ sema' = sema + 1
       /\ holder' = holder \ {f}
       /\ UNCHANGED <<log, call, bound, url, file_name, session, files, handle, opened, outcome, result>>

\* tools.create_folder(download_path), then the downloader task is created
StartDownload(f, loc, info, name) ==
    LET download_path == join(save_path, info.full_type_info)
    IN /\ dirs' = dirs \cup {download_path}
       /\ local' = [local EXCEPT ![f] = [loc EXCEPT !.response_info = info,
                                                    !.download_path = download_path,
                                                    !.name = name]]
       /\ pc' = [pc EXCEPT ![f] = "open_file"]
       /\ UNCHANGED <<log, call, bound, sema, url, file_name, holder, session, files, handle, opened,
                      outcome, result>>

\* the headers of the primary response arrive: status check and classification
PrimaryResponse(f, status, content_type, final_url) ==
    /\ pc[f] = "primary"
    /\ LET response == [status |-> status, content_type |-> content_type,
                        url |-> final_url, open |-> TRUE]
           loc == [local[f] EXCEPT !.response = response]
           info == get_response_info(content_type)
           branch == Classify(content_type, url[f])
       IN IF status # 200 THEN Throw(f, AssertionError, loc)
          ELSE IF content_type = None THEN Throw(f, KeyError, loc)
          ELSE IF branch = "direct"
          THEN IF Raised(info) THEN Throw(f, info, loc)
               ELSE StartDownload(f, loc, info, file_name[f] \o S_dot \o info.extension)
          ELSE IF branch = "resolve"
          THEN /\ local' = [local EXCEPT ![f] = [loc EXCEPT !.response = Closed(response)]]
               /\ pc' = [pc EXCEPT ![f] = "viewer"]
               /\ UNCHANGED <<log, call, bound, sema, url, file_name, holder, session, dirs, files,
                              handle, opened, outcome, result>>
          ELSE Unhandled(f, loc)

\* the second request is made whatever the resolver returned
SecondRequest_unchecked(f, find_res, loc) ==
    /\ local' = [local EXCEPT ![f] = [loc EXCEPT !.find_res = find_res,
                                                 !.viewer = Closed(loc.viewer)]]
    /\ pc' = [pc EXCEPT ![f] = "second"]
    /\ UNCHANGED <<log, call, bound, sema, url, file_name, holder, session, dirs, files, handle,
                   opened, outcome, result>>

\* find_link_by_url has returned find_res: session.get(find_res, timeout=15)
SecondRequest(f, find_res, loc) ==
    IF find_res = None THEN Throw(f, InvalidURL, [loc EXCEPT !.find_res = find_res])
    ELSE /\ local' = [local EXCEPT ![f] = [loc EXCEPT !.find_res = find_res,
                                                      !.viewer = Closed(loc.viewer)]]
         /\ pc' = [pc EXCEPT ![f] = "second"]
         /\ UNCHANGED <<log, call, bound, sema, url, file_name, holder, session, dirs, files, handle,
                        opened, outcome, result>>

\* find_link_by_url: the headers of the viewer page arrive
ViewerResponse(f, status, content_type, final_url) ==
    /\ pc[f] = "viewer"
    /\ LET viewer == [status |-> status, content_type |-> content_type,
                      url |-> final_url, open |-> TRUE]
           loc == [local[f] EXCEPT !.viewer = viewer]
       IN IF status # 200 THEN Throw(f, AssertionError, loc)
          ELSE IF content_type = None THEN Throw(f, KeyError, loc)
          ELSE IF Contains(content_type, S_text_html)
          THEN /\ local' = [local EXCEPT ![f] = loc]
               /\ pc' = [pc EXCEPT ![f] = "viewer_body"]
               /\ UNCHANGED <<log, call, bound, sema, url, file_name, holder, session, dirs, files,
                              handle, opened, outcome, result>>
          ELSE SecondRequest(f, RedirectResult(local[f].response.url, final_url), loc)

\* find_link_by_url: the body of the viewer page has been read and parsed
ViewerBody(f, page) ==
    /\ pc[f] = "viewer_body"
    /\ LET loc == [local[f] EXCEPT !.soup = page]
           src == ScanPage(page)
       IN IF page.title = T_none THEN Throw(f, AttributeError, loc)
          ELSE IF page.title = T_error THEN Throw(f, AssertionError, loc)
          ELSE IF src # Absent THEN SecondRequest(f, src, loc)
          ELSE SecondRequest(f, RedirectResult(loc.response.url, loc.viewer.url), loc)

\* the headers of the second response arrive
SecondResponse(f, status, content_type, final_url) ==
    /\ pc[f] = "second"
    /\ LET response == [status |-> status, content_type |-> content_type,
                        url |-> final_url, open |-> TRUE]
           loc == [local[f] EXCEPT !.response = response, !.viewer = NoResponse,
                                   !.soup = Unset]
           info == get_response_info(content_type)
           download_file_name == get_file_name_by_link(local[f].find_res)
       IN IF content_type = None THEN Throw(f, KeyError, loc)
          ELSE IF Raised(info) THEN Throw(f, info, loc)
          ELSE StartDownload(f, loc, info,
                             IF download_file_name = None
                             THEN file_name[f] \o S_dot \o info.extension
                             ELSE download_file_name)

\* ------------------------------------------------------------------ downloader
IsADirectoryError == [raised |-> "IsADirectoryError"]

\* join(path, name) with an empty name is path with a trailing "/": the folder
IsDirectory(path) == path[Len(path)] = "/" \/ path \in dirs

\* the file opened without truncation: what it held stays
OpenFile_keep(f) ==
    /\ pc[f] = "open_file"
    /\ LET path == join(local[f].download_path, local[f].name)
       IN IF IsDirectory(path) THEN Throw(f, IsADirectoryError, local[f])
          ELSE /\ handle' = [handle EXCEPT ![f] = path]
               /\ files' = files @@ (path :> <<>>)
               /\ opened' = [opened EXCEPT ![f] = @ + 1]
               /\ pc' = [pc EXCEPT ![f] = "stream"]
               /\ UNCHANGED <<log, call, bound, sema, url, file_name, holder, session, local,
                              dirs, outcome, result>>

\* aiofiles.open(join(path, name), 'wb'): the file is created or truncated;
\* opening a folder for writing fails
OpenFile(f) ==
    /\ pc[f] = "open_file"
    /\ LET path == join(local[f].download_path, local[f].name)
       IN IF IsDirectory(path) THEN Throw(f, IsADirectoryError, local[f])
          ELSE /\ handle' = [handle EXCEPT ![f] = path]
               /\ files' = (path :> <<>>) @@ files
               /\ opened' = [opened EXCEPT ![f] = @ + 1]
               /\ pc' = [pc EXCEPT ![f] = "stream"]
               /\ UNCHANGED <<log, call, bound, sema, url, file_name, holder, session, local,
                              dirs, outcome, result>>

\* f.write(data) at the handle's own position, which starts at 0 and moves on
\* by what the handle wrote; a position past the end of the file leaves a
\* hole of zero bytes
Hole == <<0, 0>>

WriteAt(content, pos, data) ==
    [i \in 1..(IF pos > Len(content) THEN pos ELSE Len(content)) |->
        IF i = pos THEN data
        ELSE IF i <= Len(content) THEN content[i]
        ELSE Hole]

\* one turn of the loop: a chunk arrives and is written
WriteChunk(f) ==
    /\ pc[f] = "stream"
    /\ local[f].n_chunks < MaxChunks
    /\ files' = [files EXCEPT ![handle[f]] =
                     WriteAt(@, local[f].n_chunks + 1, <<f, local[f].n_chunks + 1>>)]
    /\ local' = [local EXCEPT ![f].n_chunks = @ + 1]
    /\ UNCHANGED <<log, call, bound, sema, pc, url, file_name, holder, session, dirs, handle, opened,
                   outcome, result>>

\* the body ends: the file is closed and get_info returns the category
EndOfBody(f) ==
    /\ pc[f] = "stream"
    /\ Return(f, [url |-> local[f].response.url,
                  file_info |-> local[f].response_info.full_type_info], local[f])

\* a request, a read or a write of call f fails or times out
IOError(f) ==
    /\ pc[f] \in {"primary", "viewer", "viewer_body", "second", "open_file", "stream"}
    /\ Throw(f, ClientError, local[f])

\* ------------------------------------------------------------ leaving get_info
\* the except clause without its logger.debug line
LogEntries_error_only(f) ==
    IF Raised(outcome[f]) THEN [log[f] EXCEPT !.error = @ + 1]
    ELSE log[f]

\* logger.error(...) and logger.debug(...) of the except clause
LogEntries(f) ==
    IF Raised(outcome[f]) THEN [error |-> log[f].error + 1, debug |-> log[f].debug + 1]
    ELSE log[f]

\* an except clause that names AssertionError only
Returned_narrow(f) ==
    IF outcome[f] = AssertionError THEN [url |-> url[f], file_info |-> S_error]
    ELSE outcome[f]

\* what the caller receives: the returned value, or the except clause's record
Returned(f) ==
    IF Raised(outcome[f]) THEN [url |-> url[f], file_info |-> S_error]
    ELSE outcome[f]

\* the permit is released on the return paths only
Exit_leak(f) ==
    /\ pc[f] = "unwind"
    /\ session' = session \ {f}
    /\ holder' = holder \ {f}
    /\ sema' = IF Raised(outcome[f]) THEN sema ELSE sema + 1
    /\ result' = [result EXCEPT ![f] = Returned(f)]
    /\ outcome' = [outcome EXCEPT ![f] = Unset]
    /\ local' = [local EXCEPT ![f] = NoLocals]
    /\ log' = [log EXCEPT ![f] = LogEntries(f)]
    /\ pc' = [pc EXCEPT ![f] = "done"]
    /\ UNCHANGED <<call, bound, url, file_name, dirs, files, handle, opened>>

\* the permit is acquired by hand and never released
Exit_no_release(f) ==
    /\ pc[f] = "unwind"
    /\ session' = session \ {f}
    /\ result' = [result EXCEPT ![f] = Returned(f)]
    /\ outcome' = [outcome EXCEPT ![f] = Unset]
    /\ local' = [local EXCEPT ![f] = NoLocals]
    /\ log' = [log EXCEPT ![f] = LogEntries(f)]
    /\ pc' = [pc EXCEPT ![f] = "done"]
    /\ UNCHANGED <<call, bound, sema, holder, url, file_name, dirs, files, handle, opened>>

\* the session is closed, the permit released, and get_info returns
Exit(f) ==
    /\ pc[f] = "unwind"
    /\ session' = session \ {f}
    /\ holder' = holder \ {f}
    /\ sema' = sema + 1
    /\ result' = [result EXCEPT ![f] = Returned(f)]
    /\ outcome' = [outcome EXCEPT ![f] = Unset]
    /\ local' = [local EXCEPT ![f] = NoLocals]
    /\ log' = [log EXCEPT ![f] = LogEntries(f)]
    /\ pc' = [pc EXCEPT ![f] = "done"]
    /\ UNCHANGED <<call, bound, url, file_name, dirs, files, handle, opened>>

\* one step of call f, the servers answering within the domains of env
Step(f, env) ==
        \/ Acquire(f)
        \/ \E status \in env.statuses, content_type \in env.primary,
              final_url \in {url[f]} \cup env.redirects :
                PrimaryResponse(f, status, content_type, final_url)
        \/ \E status \in env.statuses, content_type \in env.viewer,
              final_url \in {local[f].response.url} \cup env.redirects :
                ViewerResponse(f, status, content_type, final_url)
        \/ \E page \in env.pages : ViewerBody(f, page)
        \/ \E status \in env.second_statuses, content_type \in env.second,
              final_url \in {local[f].find_res} :
                SecondResponse(f, status, content_type, final_url)
        \/ OpenFile(f)
        \/ WriteChunk(f)
        \/ EndOfBody(f)
        \/ IOError(f)
        \/ Exit(f)

\* all calls run concurrently
Next == \E f \in Fetches : Step(f, Servers)

Spec == Init /\ [][Next]_vars

\* call 1 runs alone, against every answer of AllServers
NextOne == Step(1, AllServers)

SpecOne == Init /\ [][NextOne]_vars

\* the event loop runs every task that can go on: a call waiting for a free
\* permit gets it, a call leaving its "async with" blocks returns; and no
\* request, read or write stays pending for ever: when no answer ends it, its
\* timeout does
FairSpec ==
    Spec /\ \A f \in Fetches :
                WF_vars(Acquire(f)) /\ WF_vars(IOError(f)) /\ WF_vars(Exit(f))

\* the semaphore is made with one permit: the calls run one after another
InitSerial == Init /\ bound = 1

SpecSerial == InitSerial /\ [][Next]_vars

\* ------------------------------------------------- the helpers on their own
\* every string made of at most n of the pieces
RECURSIVE Words(_, _)
Words(pieces, n) ==
    IF n = 0 THEN {<<>>}
    ELSE LET shorter == Words(pieces, n - 1)
         IN shorter \cup {w \o p : w \in shorter, p \in pieces}

\* what a link is made of: "/", a name, the "?extra" marker and its value
LinkPieces == {S_slash, <<"n">>, S_extra, <<"=","1">>}

\* what a Content-Type header is made of: two tokens, "/", ";" and "; charset="
HeaderPieces == {<<"t">>, <<"x">>, S_slash, S_semicolon,
                 S_semicolon \o <<" ">> \o S_charset}

LinkArgs == Words(LinkPieces, MaxPieces)
HeaderArgs == Words(HeaderPieces, MaxPieces)

\* no get_info call is made; one helper is about to be called with one argument
InitCall ==
    /\ call \in [fn : {"get_file_name_by_link"}, arg : LinkArgs,
                 returned : {FALSE}, ret : {Unset}]
                \cup [fn : {"get_response_info"}, arg : HeaderArgs,
                      returned : {FALSE}, ret : {Unset}]
    /\ bound = NumPermits
    /\ sema = bound
    /\ pc = [f \in Fetches |-> "start"]
    /\ url = [f \in Fetches |-> U_plain]
    /\ file_name \in [Fetches -> FileNames]
    /\ holder = {}
    /\ session = {}
    /\ local = [f \in Fetches |-> NoLocals]
    /\ dirs = {}
    /\ files = <<>>
    /\ handle = [f \in Fetches |-> None]
    /\ opened = [f \in Fetches |-> 0]
    /\ outcome = [f \in Fetches |-> Unset]
    /\ result = [f \in Fetches |-> Unset]
    /\ log = [f \in Fetches |-> NoLog]

\* get_file_name_by_link(link) is called and returns
CallFileName ==
    /\ call.fn = "get_file_name_by_link"
    /\ ~call.returned
    /\ call' = [call EXCEPT !.returned = TRUE, !.ret = get_file_name_by_link(call.arg)]
    /\ UNCHANGED <<bound, sema, pc, url, file_name, holder, session, local, dirs, files,
                   handle, opened, outcome, result, log>>

\* get_response_info(content_type) is called and returns or raises
CallResponseInfo ==
    /\ call.fn = "get_response_info"
    /\ ~call.returned
    /\ call' = [call EXCEPT !.returned = TRUE, !.ret = get_response_info(call.arg)]
    /\ UNCHANGED <<bound, sema, pc, url, file_name, holder, session, local, dirs, files,
                   handle, opened, outcome, result, log>>

NextCall == CallFileName \/ CallResponseInfo

SpecCall == InitCall /\ [][NextCall]_vars

\* ------------------------------------------------------------------ claims
Network == {"primary", "viewer", "viewer_body", "second", "open_file", "stream"}

HasReturned(f) == pc[f] = "done"

ErrorRecord(f) == [url |-> url[f], file_info |-> S_error]

\* the number of "/" in s
Slashes(s) == Cardinality({i \in 1..Len(s) : s[i] = "/"})

\* C1: under every interleaving, the number of calls with an open
\* ClientSession never exceeds the number of permits the semaphore was made with
C1_SessionsWithinPermits == Cardinality(session) <= bound

\* C1 witness: every permit is taken by a call with an open session while
\* another call waits for one
C1_Witness ==
    /\ Cardinality(session) = bound
    /\ \E f \in Fetches : pc[f] = "start"

\* C2: whenever get_info returns, it returns a record and raises nothing; if
\* an exception was leaving the "async with" blocks, the record is
\* {url: the input url, file_info: "error"}
C2_FailuresBecomeErrorRecords ==
    [][\A f \in Fetches :
          (pc[f] = "unwind" /\ pc'[f] = "done") =>
              /\ ~Raised(result'[f])
              /\ DOMAIN result'[f] = {"url", "file_info"}
              /\ Raised(outcome[f]) => result'[f] = ErrorRecord(f)]_vars

\* C2 witness: a call has failed after it opened its file and has returned
\* the error record with its input url
C2_Witness ==
    /\ HasReturned(1)
    /\ result[1] = ErrorRecord(1)
    /\ opened[1] = 1

\* C3 (as claimed): a response with a status other than 200, to the primary
\* GET or to the second GET, is never streamed to disk and never reported
\* with a content-type category
C3_NonOkNeverDownloaded ==
    \A f \in Fetches :
        (pc[f] \in {"open_file", "stream"} \/ (pc[f] = "unwind" /\ ~Raised(outcome[f])))
            => local[f].response.status = 200

\* C4: a 200 primary response that carries a content-type header goes to
\* DIRECT_DOWNLOAD when the header contains "image" or "audio", otherwise to
\* RESOLVE_AND_DOWNLOAD when it contains "text/html" and the url contains
\* "vk.com/doc", otherwise to UNHANDLED, which returns "not_parse" and sends
\* no viewer request
C4_ClassifyPriority ==
    [][\A f \in Fetches :
          (/\ pc[f] = "primary"
           /\ pc'[f] # "primary"
           /\ local'[f].response.status = 200
           /\ local'[f].response.content_type # None) =>
              LET content_type == local'[f].response.content_type
              IN IF Contains(content_type, S_image) \/ Contains(content_type, S_audio)
                 THEN \/ pc'[f] = "open_file" /\ local'[f].response.open
                      \/ pc'[f] = "unwind" /\ outcome'[f] = ValueError
                 ELSE IF Contains(content_type, S_text_html) /\ Contains(url[f], S_vk_doc)
                 THEN pc'[f] = "viewer"
                 ELSE /\ pc'[f] = "unwind"
                      /\ outcome'[f] = [url |-> local'[f].response.url,
                                        file_info |-> S_not_parse]]_vars

\* C4 witness: a viewer url answered with a header that contains both
\* "text/html" and "image" is being downloaded directly
C4_Witness ==
    /\ pc[1] = "open_file"
    /\ url[1] = U_viewer
    /\ local[1].response.content_type = H_html_image
    /\ local[1].find_res = None

\* C5: the permits left plus the calls holding one always make bound;
\* a call that has returned, by any path, holds none; when every call has
\* returned, the semaphore holds bound again
C5_PermitsConserved ==
    /\ sema + Cardinality(holder) = bound
    /\ \A f \in Fetches : pc[f] \in {"start", "done"} <=> f \notin holder
    /\ (\A f \in Fetches : HasReturned(f)) => sema = bound

\* C5 witness: all calls have returned, one through the except clause and one
\* with "not_parse"
C5_Witness ==
    /\ \A f \in Fetches : HasReturned(f)
    /\ \E f \in Fetches : result[f].file_info = S_error
    /\ \E f \in Fetches : result[f].file_info = S_not_parse

\* C6: a call that awaits any of its requests, reads the viewer page or
\* streams a body holds a permit and has its session open
C6_PermitHeldWhileOnNetwork ==
    \A f \in Fetches : pc[f] \in Network => f \in holder /\ f \in session

\* C6 witness: a call streams the body of the second GET while another call
\* waits for a permit
C6_Witness ==
    \E f, g \in Fetches :
        /\ pc[f] = "stream"
        /\ local[f].response.url = L_doc
        /\ local[f].n_chunks > 0
        /\ pc[g] = "start"

IsCategory(file_info) == Slashes(file_info) = 1

\* C7: a returned file_info is "error", or "not_parse", or a category with
\* exactly one "/", and only one of the three; a category leaves get_info
\* only from the end of a body all of whose chunks are in the file, and is
\* the full_type_info of that response
C7_ThreeOutcomes ==
    /\ [](\A f \in Fetches : HasReturned(f) =>
            Cardinality({c \in {"error", "not_parse", "category"} :
                \/ c = "error" /\ result[f].file_info = S_error
                \/ c = "not_parse" /\ result[f].file_info = S_not_parse
                \/ c = "category" /\ IsCategory(result[f].file_info)}) = 1)
    /\ [][\A f \in Fetches :
            (/\ pc[f] # "unwind"
             /\ pc'[f] = "unwind"
             /\ ~Raised(outcome'[f])
             /\ outcome'[f].file_info # S_not_parse) =>
                /\ pc[f] = "stream"
                /\ handle[f] # None
                /\ Len(files[handle[f]]) = local[f].n_chunks
                /\ IsCategory(outcome'[f].file_info)
                /\ outcome'[f].file_info =
                       get_response_info(local[f].response.content_type).full_type_info]_vars

\* C7 witness: the call has returned the category of the second response
\* after its body was written
C7_Witness ==
    /\ HasReturned(1)
    /\ result[1] = [url |-> L_doc, file_info |-> S_text_html]
    /\ \E p \in DOMAIN files : Len(files[p]) = MaxChunks

FetchState(f) == <<pc[f], local[f], outcome[f], result[f], handle[f], opened[f]>>

\* C8: no step changes the position, locals, pending outcome, result or file
\* handle of two calls; a step in which a call fails takes no permit; a
\* call that has returned holds no permit, session or file handle, so that
\* once no call is running every permit is free for the calls still waiting
C8_FailuresContained ==
    /\ [][/\ \A f, g \in Fetches :
               f # g => FetchState(f)' = FetchState(f) \/ FetchState(g)' = FetchState(g)
          /\ \A f \in Fetches :
               (~Raised(outcome[f]) /\ Raised(outcome'[f])) =>
                   sema' = sema /\ holder' = holder /\ result' = result]_vars
    /\ [](\A f \in Fetches :
            HasReturned(f) => f \notin holder /\ f \notin session /\ handle[f] = None)
    /\ []((\A f \in Fetches : pc[f] \in {"start", "done"}) => sema = bound)

\* C8 witness: one call failed in mid-stream and returned "error"; another
\* call, started on the same semaphore, then downloaded its file and
\* returned its category
C8_Witness ==
    \E f, g \in Fetches :
        /\ HasReturned(f) /\ result[f].file_info = S_error /\ opened[f] = 1
        /\ HasReturned(g) /\ result[g].file_info = SliceTo(H_jpeg, Len(H_jpeg))

\* C9: under fair scheduling every call eventually returns a result record,
\* also with more calls than permits
C9_EveryCallReturns ==
    \A f \in Fetches : <>(HasReturned(f) /\ DOMAIN result[f] = {"url", "file_info"})

\* C9 witness: with more calls than permits, every call has returned
C9_Witness ==
    /\ NumFetch > bound
    /\ \A f \in Fetches : HasReturned(f) /\ DOMAIN result[f] = {"url", "file_info"}

\* C10: a call opens at most one file for writing, and a call that ends with
\* "not_parse" has made no folder and written no file
C10_AtMostOneFile ==
    /\ \A f \in Fetches : opened[f] <= 1
    /\ (\/ pc[1] = "unwind" /\ outcome[1] = [url |-> local[1].response.url,
                                             file_info |-> S_not_parse]
        \/ HasReturned(1) /\ result[1].file_info = S_not_parse)
          => opened[1] = 0 /\ dirs = {} /\ DOMAIN files = {}

\* C10 witness: a call on a url that is no viewer url has ended with
\* "not_parse"
C10_Witness ==
    /\ HasReturned(1)
    /\ url[1] = U_plain
    /\ result[1] = [url |-> U_plain, file_info |-> S_not_parse]
\* the part of s after its last "/"
LastSegment(s) ==
    LET last == CHOOSE i \in 1..Len(s) :
                    s[i] = "/" /\ \A j \in (i + 1)..Len(s) : s[j] # "/"
    IN SliceFrom(s, last)

\* s up to its first "?extra"
BeforeExtra(s) == IF Find(s, S_extra) = -1 THEN s ELSE SliceTo(s, Find(s, S_extra))

\* C11: get_file_name_by_link returns, for a string with a "/", its last
\* path segment cut at "?extra" (the empty string when the string ends in
\* "/"), and None for a string that contains no "/"
C11_FileNameOfLink ==
    (call.fn = "get_file_name_by_link" /\ call.returned) =>
        IF Slashes(call.arg) = 0 THEN call.ret = None
        ELSE /\ call.ret = BeforeExtra(LastSegment(call.arg))
             /\ call.arg[Len(call.arg)] = "/" => call.ret = <<>>

\* type and extension tokens: no "/", no ";", no "charset="
Tokens == Words({<<"t">>, <<"x">>}, 2)

IsPrefix(p, s) == Len(p) <= Len(s) /\ SubSeq(s, 1, Len(p)) = p

S_charset_param == S_semicolon \o <<" ">> \o S_charset

\* C12: for a header "{type}/{ext}" get_response_info returns data_type,
\* extension and full_type_info and no encoding key; for a header
\* "{type}/{ext}; charset=X" it returns the same three and encoding, which is
\* everything after "charset="
C12_HeaderForms ==
    (call.fn = "get_response_info" /\ call.returned) =>
        \A ty \in Tokens, ex \in Tokens :
            LET full == ty \o S_slash \o ex
                types == [data_type |-> ty, extension |-> ex, full_type_info |-> full]
            IN /\ call.arg = full => call.ret = types
               /\ IsPrefix(full \o S_charset_param, call.arg) =>
                      call.ret = [encoding |-> SliceFrom(call.arg,
                                                   Len(full \o S_charset_param))] @@ types

\* C12 witness: a header with a charset parameter was parsed and the result
\* carries a non-empty encoding
C12_Witness ==
    /\ call.fn = "get_response_info"
    /\ call.returned
    /\ call.arg = <<"t">> \o S_slash \o <<"x">> \o S_charset_param \o <<"x">>
    /\ call.ret.encoding = <<"x">>
    /\ call.ret.extension = <<"x">>

\* the header up to its first ";"
TypePortion(h) == IF Find(h, S_semicolon) = -1 THEN h ELSE SliceTo(h, Find(h, S_semicolon))

\* C15 as stated: whenever get_response_info returns, full_type_info has
\* exactly one "/", is data_type + "/" + extension, and data_type and
\* extension are both non-empty; a type portion with no "/" or more than one
\* makes the parser fail
C15_PartsNonEmpty ==
    (call.fn = "get_response_info" /\ call.returned) =>
        /\ ~Raised(call.ret) =>
              /\ Slashes(call.ret.full_type_info) = 1
              /\ call.ret.full_type_info =
                     call.ret.data_type \o S_slash \o call.ret.extension
              /\ call.ret.data_type # <<>>
              /\ call.ret.extension # <<>>
        /\ Slashes(TypePortion(call.arg)) # 1 => call.ret = ValueError

\* C15 amended: whenever get_response_info returns, full_type_info is the
\* header up to its first ";", has exactly one "/" and is data_type + "/" +
\* extension, where data_type or extension may be empty; a type portion
\* with no "/" or more than one makes the parser fail, and no other does
C15_OneSlash ==
    (call.fn = "get_response_info" /\ call.returned) =>
        /\ ~Raised(call.ret) =>
              /\ call.ret.full_type_info = TypePortion(call.arg)
              /\ Slashes(call.ret.full_type_info) = 1
              /\ call.ret.full_type_info =
                     call.ret.data_type \o S_slash \o call.ret.extension
        /\ Slashes(TypePortion(call.arg)) # 1 <=> call.ret = ValueError

\* C15 witness: a header with nothing before its "/" was parsed, and the
\* result has an empty data_type
C15_Witness ==
    /\ call.fn = "get_response_info"
    /\ call.returned
    /\ call.arg = S_slash \o <<"x">>
    /\ ~Raised(call.ret)
    /\ call.ret.data_type = <<>>
    /\ call.ret.extension = <<"x">>

\* the url the viewer request of call f was made with: str(response.url)
Requested(f) == local[f].response.url

\* the final url of the viewer response when it is not the requested one
Redirected(f) ==
    IF local[f].viewer.url # Requested(f) THEN local[f].viewer.url ELSE None

IsHtml(f) == Contains(local[f].viewer.content_type, S_text_html)

\* what C13 says find_link_by_url returns, from the page and the response
ResolverResult(f) ==
    IF IsHtml(f) /\ local[f].soup.img # Absent THEN local[f].soup.img
    ELSE IF IsHtml(f) /\ local[f].soup.iframe # Absent THEN local[f].soup.iframe
    ELSE Redirected(f)

\* the resolver of call f has returned find_res, or has returned None
ResolverReturned(f) ==
    \/ pc[f] = "second"
    \/ pc[f] = "unwind" /\ outcome[f] = InvalidURL

\* C13: when the viewer answers 200 with HTML whose title has no error
\* marker, find_link_by_url returns the src of the first <img> if there is
\* one, else the src of the first <iframe> if there is one, redirected or
\* not; only with neither element, or without HTML, it returns the final
\* url, and only if that differs from the requested one
C13_ImgThenIframeThenRedirect ==
    \A f \in Fetches :
        ResolverReturned(f) =>
            /\ local[f].viewer.status = 200
            /\ IsHtml(f) => local[f].soup.title = T_ok
            /\ local[f].find_res = ResolverResult(f)

\* C13 witness: a redirected viewer page with an <img> and an <iframe> was
\* resolved to the src of the <img>
C13_Witness ==
    /\ pc[1] = "second"
    /\ local[1].viewer.url # Requested(1)
    /\ local[1].soup # Unset
    /\ local[1].soup.img = L_dir
    /\ local[1].soup.iframe = L_doc
    /\ local[1].find_res = L_dir

\* the viewer page of call f gives the resolver nothing to return
NoResultCase(f) ==
    /\ local[f].soup # Unset
    /\ local[f].soup.title = T_ok
    /\ \/ /\ local[f].soup.img = Absent
          /\ local[f].soup.iframe = Absent
          /\ local[f].viewer.url = Requested(f)
       \/ local[f].soup.img = None
       \/ local[f].soup.img = Absent /\ local[f].soup.iframe = None

\* C14: when the resolver has no result (an HTML page with no <img>, no
\* <iframe> and no redirect, or a found element without src) the request to
\* the absent target fails: no second response is awaited, no folder is made,
\* no file is written, and get_info returns {url: input url, file_info: error}
C14_NoResultIsAnError ==
    [][\A f \in Fetches :
          /\ NoResultCase(f) =>
                /\ pc[f] = "unwind"
                /\ outcome[f] = InvalidURL
                /\ dirs = {}
                /\ files = <<>>
                /\ opened[f] = 0
          /\ (pc[f] = "unwind" /\ outcome[f] = InvalidURL /\ pc'[f] = "done") =>
                /\ result'[f] = ErrorRecord(f)
                /\ dirs' = {}
                /\ files' = <<>>
                /\ opened'[f] = 0]_vars

\* C14 witness: the first element of the page had no src, and the call has
\* failed on the absent target
C14_Witness ==
    /\ pc[1] = "unwind"
    /\ outcome[1] = InvalidURL
    /\ local[1].soup # Unset
    /\ local[1].soup.img = None
    /\ local[1].soup.iframe = L_doc

\* call f has written a chunk to some file
HasWritten(f) ==
    \E p \in DOMAIN files : \E i \in 1..Len(files[p]) : files[p][i][1] = f

\* C16: the steps of one fetch are sequential: a request is pending only
\* while the permit is held and the session open; nothing is written before
\* the response was classified and parsed; the viewer request is made only
\* after the primary response was closed; the second GET only after the
\* resolver has returned a link and closed its response; and a fetch never
\* has more than one response open. Fetches complete in any order.
C16_StepsInOrder ==
    \A f \in Fetches :
        /\ pc[f] \in Network => f \in holder /\ f \in session
        /\ pc[f] = "primary" => local[f] = NoLocals
        /\ (handle[f] # None \/ pc[f] \in {"open_file", "stream"}) =>
              /\ local[f].response.open
              /\ local[f].response_info # Unset
        /\ HasWritten(f) => opened[f] >= 1
        /\ pc[f] \in {"viewer", "viewer_body"} =>
              /\ local[f].response.status = 200
              /\ ~local[f].response.open
        /\ pc[f] = "second" =>
              /\ local[f].find_res # None
              /\ ~local[f].viewer.open
              /\ ~local[f].response.open
        /\ ~(local[f].response.open /\ local[f].viewer.open)
        /\ pc[f] \in {"unwind", "done"} =>
              ~local[f].response.open /\ ~local[f].viewer.open

\* C16 witness: call 2 has resolved a viewer link, downloaded it and returned
\* while call 1 is still reading its body
C16_Witness ==
    /\ pc[1] = "stream"
    /\ pc[2] = "done"
    /\ url[2] = U_viewer
    /\ result[2] = [url |-> L_doc, file_info |-> H_jpeg]

\* the first k chunks of the body call f reads, in arrival order
Chunks(f, k) == [i \in 1..k |-> <<f, i>>]

FallbackName(f) == file_name[f] \o S_dot \o local[f].response_info.extension

\* C18: a download of a resolved link is saved under the name extracted
\* from the link when the extraction yields a name, and under
\* "{file_name}.{extension}" when it yields none; a resolved link ending in
\* "/" is saved under that fallback name and does not fail
C18_FallbackWhenNoName ==
    \A f \in Fetches :
        /\ (pc[f] \in {"open_file", "stream"} /\ local[f].find_res # None) =>
              local[f].name =
                  IF get_file_name_by_link(local[f].find_res) \in {None, <<>>}
                  THEN FallbackName(f)
                  ELSE get_file_name_by_link(local[f].find_res)
        /\ outcome[f] # IsADirectoryError

\* C19: no two calls in flight ever have the same destination path open
\* for writing at the same time
C19_NoSharedDestination ==
    \A f \in Fetches, g \in Fetches :
        (f # g /\ handle[f] # None) => handle[f] # handle[g]

\* the error-level entries the logger has received
RECURSIVE ErrorEntries(_)
ErrorEntries(S) ==
    IF S = {} THEN 0
    ELSE LET f == CHOOSE g \in S : TRUE
         IN log[f].error + ErrorEntries(S \ {f})

ReturnedError(f) == pc[f] = "done" /\ result[f].file_info = S_error

\* C20: the logger has received one error-level and one debug-level entry
\* from every call that returned "error" and none from any other call, so the
\* error entries are as many as the calls that returned "error"
C20_OneEntryPairPerError ==
    /\ \A f \in Fetches :
          log[f] = IF ReturnedError(f) THEN [error |-> 1, debug |-> 1] ELSE NoLog
    /\ ErrorEntries(Fetches) = Cardinality({f \in Fetches : ReturnedError(f)})

\* C20 witness: call 1 has returned "error" and was logged, call 2 has
\* returned a category and was not
C20_Witness ==
    /\ ReturnedError(1)
    /\ log[1] = [error |-> 1, debug |-> 1]
    /\ pc[2] = "done"
    /\ result[2].file_info = H_jpeg
    /\ log[2] = NoLog

====
